---- MODULE Spec2Model ----
(***************************************************************************)
(* A model of cookiecutter/prompt.py: the resolution of a cookiecutter     *)
(* schema (context['cookiecutter']) into a context, either by prompting    *)
(* the operator or from the schema's defaults (no_input).                   *)
(*                                                                         *)
(* Python values are tagged tuples, the tag first:                         *)
(*   <<"none">>            None                                            *)
(*   <<"bool", b>>         a bool                                          *)
(*   <<"int", n>>          an int                                          *)
(*   <<"str", s>>          a str holding no template expression            *)
(*   <<"tpl", k>>          the str "{{ cookiecutter.k }}"                  *)
(*   <<"repr", v>>         the str that str(v) gives for a list or dict v  *)
(*   <<"list", seq>>       a list                                          *)
(*   <<"dict", pairs>>     a dict in insertion order, pairs of <<k, v>>    *)
(***************************************************************************)
EXTENDS Integers, Sequences, FiniteSets, TLC

VARIABLES
    op,                \* the function this run calls
    no_input,          \* its no_input argument
    schema,            \* context['cookiecutter'], the caller's mapping
    pc,                \* position in the function
    idx,               \* position of the running for loop in the schema
    cookiecutter_dict, \* the context being built (pairs, insertion order)
    count,             \* the progress counter of prompt_for_config
    size,              \* len(visible_prompts)
    prompts,           \* the popped top-level __prompts__ mapping
    asked,             \* history: every prompt-provider call, in order
    writes,            \* history: the keys assigned in cookiecutter_dict, in order
    path_exists,       \* prompt_and_delete: the path is still on disk
    ret,               \* the value returned
    err,               \* the exception that left the function, <<"none">> if none
    calls,             \* history: how the earlier calls on this schema ended
    gates              \* history: the __conditional__ comparisons made

vars == <<op, no_input, schema, pc, idx, cookiecutter_dict, count, size,
          prompts, asked, writes, path_exists, ret, err, calls, gates>>

(***************************************************************************)
(* Python values                                                           *)
(***************************************************************************)
None == <<"none">>
B(b) == <<"bool", b>>
I(n) == <<"int", n>>
S(s) == <<"str", s>>
T(k) == <<"tpl", k>>
L(seq) == <<"list", seq>>
D(pairs) == <<"dict", pairs>>

IsNone(v) == v[1] = "none"
IsBool(v) == v[1] = "bool"
IsInt(v)  == v[1] = "int"
IsStr(v)  == v[1] \in {"str", "tpl", "repr"}
IsList(v) == v[1] = "list"
IsDict(v) == v[1] = "dict"

\* Operations on the pairs of an insertion-ordered dict.
Keys(d) == [i \in 1..Len(d) |-> d[i][1]]
Has(d, k) == \E i \in 1..Len(d) : d[i][1] = k
Get(d, k) == d[CHOOSE i \in 1..Len(d) : d[i][1] = k][2]
GetOr(d, k, dflt) == IF Has(d, k) THEN Get(d, k) ELSE dflt
Put(d, k, v) ==
    IF Has(d, k)
    THEN [i \in 1..Len(d) |-> IF d[i][1] = k THEN <<k, v>> ELSE d[i]]
    ELSE Append(d, <<k, v>>)
RECURSIVE Without(_, _)
Without(d, ks) ==
    IF d = <<>> THEN <<>>
    ELSE IF d[1][1] \in ks THEN Without(Tail(d), ks)
    ELSE <<d[1]>> \o Without(Tail(d), ks)
RECURSIVE Update(_, _)
Update(d, e) == IF e = <<>> THEN d ELSE Update(Put(d, e[1][1], e[1][2]), Tail(e))

\* str(v) of a Python value.
DigitStr(n) == CASE n = 0 -> "0" [] n = 1 -> "1" [] n = 2 -> "2" [] OTHER -> "n"
PyStr(v) ==
    CASE IsStr(v)  -> v
      [] IsNone(v) -> S("None")
      [] IsBool(v) -> IF v[2] THEN S("True") ELSE S("False")
      [] IsInt(v)  -> S(DigitStr(v[2]))
      [] OTHER     -> <<"repr", v>>

\* bool(v) of a Python value.
Truthy(v) ==
    CASE IsNone(v) -> FALSE
      [] IsBool(v) -> v[2]
      [] IsInt(v)  -> v[2] # 0
      [] v[1] = "str" -> v[2] # ""
      [] v[1] \in {"list", "dict"} -> v[2] # <<>>
      [] OTHER -> TRUE

\* a == b of two Python values: a bool equals the int of its value, two dicts
\* are equal when they hold the same items, whatever their order.
RECURSIVE PyEq(_, _)
PyEq(a, b) ==
    CASE IsBool(a) /\ IsInt(b) -> (IF a[2] THEN 1 ELSE 0) = b[2]
      [] IsInt(a) /\ IsBool(b) -> (IF b[2] THEN 1 ELSE 0) = a[2]
      [] IsDict(a) /\ IsDict(b) ->
            /\ Len(a[2]) = Len(b[2])
            /\ \A i \in 1..Len(a[2]) :
                 /\ Has(b[2], a[2][i][1])
                 /\ PyEq(a[2][i][2], Get(b[2], a[2][i][1]))
      [] IsList(a) /\ IsList(b) ->
            /\ Len(a[2]) = Len(b[2])
            /\ \A i \in 1..Len(a[2]) : PyEq(a[2][i], b[2][i])
      [] OTHER -> a[1] = b[1] /\ a = b

(***************************************************************************)
(* The name tests on keys. A key is a str; TLC cannot look inside a string, *)
(* so str.startswith is the membership of the names the model uses.         *)
(***************************************************************************)
DunderNames == {"__der", "__prompts__", "__conditional__", "__prompt__"}
PrivateNames == {"_priv", "_"}
StartsWithUnderscore(k) == k[2] \in DunderNames \cup PrivateNames
StartsWithDunder(k) == k[2] \in DunderNames

(***************************************************************************)
(* Rendering                                                               *)
(***************************************************************************)
\* template.render(cookiecutter=cookiecutter_dict) of the str s under the
\* strict environment: an expression naming a key the context lacks raises
\* UndefinedError.
TemplateDefined(s, ctx) == s[1] = "tpl" => Has(ctx, S(s[2]))
TemplateRender(s, ctx) == IF s[1] = "tpl" THEN PyStr(Get(ctx, S(s[2]))) ELSE s

\* render_variable raises UndefinedError exactly when RenderOK is false.
RECURSIVE RenderOK(_, _)
RenderOK(raw, ctx) ==
    CASE IsNone(raw) \/ IsBool(raw) -> TRUE
      [] IsDict(raw) ->
            \A i \in 1..Len(raw[2]) :
                RenderOK(raw[2][i][1], ctx) /\ RenderOK(raw[2][i][2], ctx)
      [] IsList(raw) -> \A i \in 1..Len(raw[2]) : RenderOK(raw[2][i], ctx)
      [] OTHER -> TemplateDefined(PyStr(raw), ctx)

RECURSIVE render_variable(_, _), RenderItems(_, _)
RenderItems(items, ctx) ==
    IF items = <<>> THEN <<>>
    ELSE Update(<< <<render_variable(items[1][1], ctx),
                     render_variable(items[1][2], ctx)>> >>,
                RenderItems(Tail(items), ctx))
render_variable(raw, ctx) ==
    CASE IsNone(raw) \/ IsBool(raw) -> raw
      [] IsDict(raw) -> D(RenderItems(raw[2], ctx))
      [] IsList(raw) -> L([i \in 1..Len(raw[2]) |-> render_variable(raw[2][i], ctx)])
      [] OTHER -> TemplateRender(PyStr(raw), ctx)

(***************************************************************************)
(* The prompt provider. Every call is one entry of `asked`: the kind of    *)
(* prompt, the top-level key it was made for, the variable asked about,    *)
(* the default offered, what the operator typed and the value returned.    *)
(* An outcome of a call is <<exception or "ok", value, entries>>.          *)
(***************************************************************************)
Entry(kind, owner, var, dflt, input, value) ==
    [kind |-> kind, owner |-> owner, var |-> var, default |-> dflt,
     input |-> input, value |-> value]

Typed == S("typed")

\* read_user_variable: Prompt.ask gives the default on empty input and the
\* typed text otherwise; the loop asks again while the result is None.
read_user_variable(owner, var_name, default_value) ==
    { <<"ok", a[2], <<Entry("text", owner, var_name, default_value, a[1], a[2])>> >> :
        a \in (IF IsNone(default_value) THEN {} ELSE {<<S(""), default_value>>})
              \cup {<<Typed, Typed>>} }

\* YesNoPrompt.process_response: value.strip().lower() looked up in
\* yes_choices and no_choices. The answers the operator may type, with
\* their stripped, lowercased form.
yes_choices == {"1", "true", "t", "yes", "y", "on"}
no_choices == {"0", "false", "f", "no", "n", "off"}
\* What the operator may type at a yes/no question: when read_user_yes_no is
\* what is run, every spelling of the two lists, spellings that differ from
\* them by case or surrounding whitespace, and answers outside the lists;
\* three of them when the question is one step of a longer run.
AllYesNoTokens ==
    yes_choices \cup no_choices
    \cup {" Yes ", "OFF", "TRUE", "T", "y ", " On", " 1 ",
          "False", "F", "NO", " n", "0 "}
    \cup {"maybe", " ", "2", "Yes!", "ye s", "o n"}
YesNoTokens ==
    IF op = "read_user_yes_no" THEN AllYesNoTokens ELSE {" Yes ", "OFF", "maybe"}
StripLower(t) ==
    CASE t = " Yes " -> "yes" [] t = "OFF" -> "off" [] t = "TRUE" -> "true"
      [] t = "T" -> "t" [] t = "y " -> "y" [] t = " On" -> "on"
      [] t = " 1 " -> "1" [] t = "False" -> "false" [] t = "F" -> "f"
      [] t = "NO" -> "no" [] t = " n" -> "n" [] t = "0 " -> "0"
      [] t = " " -> "" [] t = "Yes!" -> "yes!"
      [] OTHER -> t
\* Mutant: the answer is compared as typed, without strip() and lower().
process_response_AsTyped(t) ==
    IF t \in yes_choices THEN B(TRUE)
    ELSE IF t \in no_choices THEN B(FALSE)
    ELSE <<"InvalidResponse">>
process_response(t) ==
    IF StripLower(t) \in yes_choices THEN B(TRUE)
    ELSE IF StripLower(t) \in no_choices THEN B(FALSE)
    ELSE <<"InvalidResponse">>

\* The rejected answers that may precede the accepted one: each raises
\* InvalidResponse inside the prompt, which asks again.
MaxRetries == 1
RECURSIVE Rejected(_, _, _, _)
Rejected(owner, var_name, default_value, n) ==
    {<<>>} \cup
    (IF n = 0 THEN {}
     ELSE { <<Entry("invalid", owner, var_name, default_value, S(t), None)>> \o r :
              t \in {u \in YesNoTokens : process_response(u) = <<"InvalidResponse">>},
              r \in Rejected(owner, var_name, default_value, n - 1) })

\* read_user_yes_no: the default on empty input, else the processed answer.
read_user_yes_no(owner, var_name, default_value) ==
    { <<"ok", a[2], r \o <<Entry("yesno", owner, var_name, default_value, a[1], a[2])>> >> :
        a \in {<<S(""), default_value>>}
              \cup { <<S(t), process_response(t)>> :
                       t \in {u \in YesNoTokens : process_response(u) # <<"InvalidResponse">>} },
        r \in Rejected(owner, var_name, default_value, MaxRetries) }

\* Mutant: choice_map is numbered from 0 (enumerate without its start).
read_user_choice_FromZero(owner, var_name, options) ==
    IF options = <<>> THEN {<<"ValueError", None, <<>> >>}
    ELSE { <<"ok", options[i],
             <<Entry("choice", owner, var_name, L(options), S(DigitStr(i - 1)), options[i])>> >> :
             i \in 1..Len(options) }
         \cup { <<"ok", options[1],
                  <<Entry("choice", owner, var_name, L(options), S(""), options[1])>> >> }
\* read_user_choice: ValueError on no options; else the operator picks one of
\* the keys "1".."N" of choice_map, the default being the first.
read_user_choice(owner, var_name, options) ==
    IF options = <<>> THEN {<<"ValueError", None, <<>> >>}
    ELSE { <<"ok", options[i],
             <<Entry("choice", owner, var_name, L(options), S(DigitStr(i)), options[i])>> >> :
             i \in 1..Len(options) }
         \cup { <<"ok", options[1],
                  <<Entry("choice", owner, var_name, L(options), S(""), options[1])>> >> }

\* process_json on what the operator may type at the JSON prompt.
JsonTexts == {"{\"k\": \"v\"}", "{}"}
process_json(t) ==
    CASE t = "{\"k\": \"v\"}" -> D(<< <<S("k"), S("v")>> >>)
      [] t = "{}" -> D(<<>>)
      [] OTHER -> <<"InvalidResponse">>

\* read_user_dict: TypeError unless the default is a dict; the default on
\* empty input, else the parsed JSON object.
read_user_dict(owner, var_name, default_value) ==
    IF ~IsDict(default_value) THEN {<<"TypeError", None, <<>> >>}
    ELSE { <<"ok", a[2], <<Entry("json", owner, var_name, default_value, a[1], a[2])>> >> :
             a \in {<<S(""), default_value>>}
                   \cup { <<S(t), process_json(t)>> : t \in JsonTexts } }

\* The iteration `for raw in options`: the elements of a list, the keys of a dict.
Iter(options) == IF IsDict(options) THEN Keys(options[2]) ELSE options[2]

\* Mutant: the operator is asked whatever no_input says.
prompt_choice_for_config_Asks(ctx, owner, key, options, noinput) ==
    LET opts == Iter(options)
    IN  IF \E i \in 1..Len(opts) : ~RenderOK(opts[i], ctx)
        THEN {<<"UndefinedError", None, <<>> >>}
        ELSE read_user_choice(owner, key,
                              [i \in 1..Len(opts) |-> render_variable(opts[i], ctx)])
\* prompt_choice_for_config
prompt_choice_for_config(ctx, owner, key, options, noinput) ==
    LET opts == Iter(options)
        rendered_options == [i \in 1..Len(opts) |-> render_variable(opts[i], ctx)]
    IN  IF \E i \in 1..Len(opts) : ~RenderOK(opts[i], ctx)
        THEN {<<"UndefinedError", None, <<>> >>}
        ELSE IF noinput
        THEN (IF rendered_options = <<>> THEN {<<"IndexError", None, <<>> >>}
              ELSE {<<"ok", rendered_options[1], <<>> >>})
        ELSE read_user_choice(owner, key, rendered_options)

\* _prompt_for_nested_config: the outcomes <<result items, entries>> of the
\* loop over the items of nested_config.
ReservedKeys == {S("__prompts__"), S("__conditional__")}
IsNestedConfig(v) == IsDict(v) /\ Has(v[2], S("__prompts__"))
NestedAsk(owner, key, value) ==
    { <<a[2], <<Entry("nested", owner, key, value, a[1], a[2])>> >> :
        a \in {<<S(""), value>>, <<Typed, Typed>>} }
RECURSIVE NestedItems(_, _, _)
NestedItems(owner, items, noinput) ==
    IF items = <<>> THEN {<< <<>>, <<>> >>}
    ELSE LET key == items[1][1]
             value == items[1][2]
             rest == NestedItems(owner, Tail(items), noinput)
             here == IF IsNestedConfig(value)
                     THEN { <<D(o[1]), o[2]>> : o \in NestedItems(owner, value[2], noinput) }
                     ELSE IF noinput THEN {<<value, <<>> >>}
                     ELSE NestedAsk(owner, key, value)
         IN  IF key \in ReservedKeys THEN rest
             ELSE { <<Update(<< <<key, h[1]>> >>, r[1]), h[2] \o r[2]>> :
                      h \in here, r \in rest }
_prompt_for_nested_config(owner, nested_config, noinput) ==
    NestedItems(owner, nested_config[2], noinput)

(***************************************************************************)
(* prompt_for_config: what each shape of raw value resolves to. An outcome *)
(* is <<exception or "ok", value stored, entries asked>>.                  *)
(***************************************************************************)
IsPrivateKey(key) == StartsWithUnderscore(key) /\ ~StartsWithDunder(key)

\* Mutant: the "choices" + "_" shape is not recognised in pass 1.
IsChoiceWithNested_Never(raw) == FALSE
IsChoiceWithNested(raw) ==
    IsDict(raw) /\ Has(raw[2], S("choices")) /\ Has(raw[2], S("_"))

ChoiceOnly(choice_val) == D(<< <<S("choice"), choice_val>> >>)
ChoiceMerged(choice_val, nested_val) ==
    D(Update(<< <<S("choice"), choice_val>> >>, nested_val))

\* Mutant: the condition of a choice is compared under no_input too.
ConditionCompared_BothModes(nested_cfg, noinput) ==
    Truthy(GetOr(nested_cfg[2], S("__conditional__"), None))
\* Whether the choice just made is compared with the target of the nested
\* config's __conditional__.
ConditionCompared(nested_cfg, noinput) ==
    ~noinput /\ Truthy(GetOr(nested_cfg[2], S("__conditional__"), None))

\* Mutant: the nested config is prompted whatever __conditional__ holds.
NestedGate_Unconditional(choice_val, nested_cfg, noinput) == ~noinput
\* Mutant: no_input does not suppress the nested config; its defaults are merged.
NestedGate_IgnoresNoInput(choice_val, nested_cfg, noinput) ==
    LET condition == GetOr(nested_cfg[2], S("__conditional__"), None)
    IN  Truthy(condition) => PyEq(choice_val, GetOr(condition[2], S("value"), None))
\* Whether the nested config of a choice is resolved after the choice.
NestedGate(choice_val, nested_cfg, noinput) ==
    LET condition == GetOr(nested_cfg[2], S("__conditional__"), None)
    IN  IF ConditionCompared(nested_cfg, noinput)
        THEN PyEq(choice_val, GetOr(condition[2], S("value"), None))
        ELSE ~noinput /\ ~Truthy(condition)

ChoiceWithNestedOutcomes(ctx, key, raw, noinput) ==
    UNION { IF c[1] # "ok" THEN {c}
            ELSE IF NestedGate(c[2], Get(raw[2], S("_")), noinput)
            THEN { <<"ok", ChoiceMerged(c[2], n[1]), c[3] \o n[2]>> :
                     n \in _prompt_for_nested_config(key, Get(raw[2], S("_")), noinput) }
            ELSE { <<"ok", ChoiceOnly(c[2]), c[3]>> } :
            c \in prompt_choice_for_config(ctx, key, key, Get(raw[2], S("choices")), noinput) }

ListOutcomes(ctx, key, raw, noinput) ==
    { IF c[1] # "ok" THEN c ELSE <<"ok", ChoiceOnly(c[2]), c[3]>> :
        c \in prompt_choice_for_config(ctx, key, key, raw, noinput) }

BoolOutcomes(ctx, key, raw, noinput) ==
    IF noinput THEN {<<"ok", render_variable(raw, ctx), <<>> >>}
    ELSE read_user_yes_no(key, key, raw)

\* Mutant: under no_input the raw default is stored without rendering.
ScalarOutcomes_NoRender(ctx, key, raw, noinput) ==
    IF ~RenderOK(raw, ctx) THEN {<<"UndefinedError", None, <<>> >>}
    ELSE IF noinput THEN {<<"ok", raw, <<>> >>}
    ELSE read_user_variable(key, key, render_variable(raw, ctx))
ScalarOutcomes(ctx, key, raw, noinput) ==
    IF ~RenderOK(raw, ctx) THEN {<<"UndefinedError", None, <<>> >>}
    ELSE IF noinput THEN {<<"ok", render_variable(raw, ctx), <<>> >>}
    ELSE read_user_variable(key, key, render_variable(raw, ctx))

\* Mutant: on a mismatched gate the raw dict is stored with its markers.
StripMarkers_Keep(raw) == raw
\* Pass 2, a dict carrying __prompts__.
StripMarkers(raw) == D(Without(raw[2], ReservedKeys))
\* Mutant: the gate is not compared with the context; the fields are always resolved.
ConditionHolds_Always(ctx, raw) == TRUE
ConditionHolds(ctx, raw) ==
    LET condition == Get(raw[2], S("__conditional__"))
    IN  PyEq(GetOr(ctx, GetOr(condition[2], S("option"), None), None),
             GetOr(condition[2], S("value"), None))
NestedConfigOutcomes(ctx, key, raw, noinput) ==
    IF Has(raw[2], S("__conditional__")) /\ ~ConditionHolds(ctx, raw)
    THEN {<<"ok", StripMarkers(raw), <<>> >>}
    ELSE { <<"ok", D(n[1]), n[2]>> : n \in _prompt_for_nested_config(key, raw, noinput) }

\* Mutant: the operator's mapping is merged over the rendered default.
PlainDictOutcomes_Merged(ctx, key, raw, noinput) ==
    IF ~RenderOK(raw, ctx) THEN {<<"UndefinedError", None, <<>> >>}
    ELSE IF ~noinput /\ ~StartsWithDunder(key)
    THEN { <<o[1], D(Update(render_variable(raw, ctx)[2], o[2][2])), o[3]>> :
             o \in read_user_dict(key, key, render_variable(raw, ctx)) }
    ELSE {<<"ok", render_variable(raw, ctx), <<>> >>}
\* Pass 2, any other dict.
PlainDictOutcomes(ctx, key, raw, noinput) ==
    IF ~RenderOK(raw, ctx) THEN {<<"UndefinedError", None, <<>> >>}
    ELSE IF ~noinput /\ ~StartsWithDunder(key)
    THEN read_user_dict(key, key, render_variable(raw, ctx))
    ELSE {<<"ok", render_variable(raw, ctx), <<>> >>}

(***************************************************************************)
(* The schemas a run starts from.                                          *)
(***************************************************************************)
MaxKeys == 3

Pair(k, v) == <<S(k), v>>
Dict1(k, v) == D(<< Pair(k, v) >>)

\* "choices" + "_": the options are the keys of "choices"; the nested config
\* is gated on the choice being "App".
db_conditional ==
    D(<< Pair("choices", D(<< <<T("name"), D(<<>>)>>, Pair("no", D(<<>>)) >>)),
         Pair("_", D(<< Pair("port", I(1)),
                        Pair("__conditional__", Dict1("value", S("App"))) >>)) >>)
\* "choices" + "_" with no __conditional__; the nested config holds a field
\* named "choice" and a nested config of its own.
db_always ==
    D(<< Pair("choices", D(<< Pair("yes", D(<<>>)), Pair("no", D(<<>>)) >>)),
         Pair("_", D(<< Pair("__prompts__", Dict1("choice", S("Which?"))),
                        Pair("choice", S("z")),
                        Pair("sub", D(<< Pair("__prompts__", D(<<>>)),
                                         Pair("p", T("name")) >>)) >>)) >>)
\* A nested config gated on the resolved value of "flag".
cfg_conditional ==
    D(<< Pair("__prompts__", Dict1("host", S("Host?"))),
         Pair("__conditional__", D(<< Pair("option", S("flag")), Pair("value", B(TRUE)) >>)),
         Pair("host", T("name")),
         Pair("sub", D(<< Pair("__prompts__", D(<<>>)),
                          Pair("__conditional__", Dict1("value", S("x"))),
                          Pair("p", I(1)) >>)) >>)
cfg_always ==
    D(<< Pair("__prompts__", D(<<>>)), Pair("host", T("name")) >>)
plain_dict ==
    D(<< Pair("k", I(1)), <<T("name"), L(<<T("name"), B(TRUE)>>)>> >>)

Pool ==
    { Pair("name", S("App")),
      Pair("slug", T("name")),
      Pair("_priv", Dict1("k", T("name"))),
      Pair("__der", Dict1("k", T("name"))),
      Pair("opt", L(<<T("name"), S("b")>>)),
      Pair("opt", L(<<>>)),
      Pair("flag", B(TRUE)),
      Pair("db", db_conditional),
      Pair("db", db_always),
      Pair("extra", plain_dict),
      Pair("cfg", cfg_conditional),
      Pair("cfg", cfg_always),
      Pair("__prompts__", Dict1("name", S("Project name?"))) }

DistinctKeys(d) == \A i, j \in 1..Len(d) : d[i][1] = d[j][1] => i = j
Schemas ==
    { d \in UNION { [1..n -> Pool] : n \in 0..MaxKeys } : DistinctKeys(d) }

\* The schemas of choose_nested_template: "templates" as a mapping of
\* options, or "template" as the legacy list of "label (path)" strings.
TemplateOption(p) == Dict1("path", S(p))
TemplateSchemas ==
    { << Pair("templates", D(<< Pair("default", TemplateOption(a)),
                                Pair("alt", TemplateOption(b)) >>)) >> :
        a, b \in {"tpl1", "/abs", ""} }
    \cup { << Pair("template", L(l)) >> :
             l \in { <<>>, <<S("A (tpl1)"), S("B (/abs)")>>, <<S("B (/abs)"), S("C")>>,
                     <<S("C"), S("A (tpl1)")>> } }
    \cup { <<>> }

(***************************************************************************)
(* The state machine                                                       *)
(***************************************************************************)
NoErr == <<"none">>

Init ==
    /\ op \in {"prompt_for_config", "choose_nested_template", "prompt_and_delete"}
    /\ no_input \in BOOLEAN
    /\ schema \in CASE op = "prompt_for_config" -> Schemas
                    [] op = "choose_nested_template" -> TemplateSchemas
                    [] OTHER -> {<<>>}
    /\ pc = "start"
    /\ idx = 1
    /\ cookiecutter_dict = <<>>
    /\ count = 0
    /\ size = 0
    /\ prompts = D(<<>>)
    /\ asked = <<>>
    /\ writes = <<>>
    /\ path_exists = TRUE
    /\ ret = None
    /\ err = NoErr
    /\ calls = <<>>
    /\ gates = <<>>

\* prompt_for_config up to the first loop: pop __prompts__, count the
\* visible keys.
VisibleCount(d) == Cardinality({i \in 1..Len(d) : ~StartsWithUnderscore(d[i][1])})
\* Mutant: __prompts__ is read with get and stays in the schema.
Start_NoPop ==
    /\ op = "prompt_for_config" /\ pc = "start"
    /\ prompts' = GetOr(schema, S("__prompts__"), D(<<>>))
    /\ schema' = schema
    /\ size' = VisibleCount(schema')
    /\ count' = 0
    /\ cookiecutter_dict' = <<>>
    /\ idx' = 1
    /\ pc' = "pass1"
    /\ UNCHANGED <<op, no_input, calls, gates, asked, writes, path_exists, ret, err>>
Start ==
    /\ op = "prompt_for_config" /\ pc = "start"
    /\ prompts' = GetOr(schema, S("__prompts__"), D(<<>>))
    /\ schema' = Without(schema, {S("__prompts__")})
    /\ size' = VisibleCount(schema')
    /\ count' = 0
    /\ cookiecutter_dict' = <<>>
    /\ idx' = 1
    /\ pc' = "pass1"
    /\ UNCHANGED <<op, no_input, calls, gates, asked, writes, path_exists, ret, err>>

\* One iteration that resolves `key`: the value is stored and the loop moves
\* on, or the exception leaves the function. An UndefinedError raised inside
\* the try block leaves as UndefinedVariableInTemplate(msg, err, context).
Wrap(exc, key, in_try) ==
    IF in_try /\ exc = "UndefinedError"
    THEN <<"UndefinedVariableInTemplate", key, schema>>
    ELSE <<exc>>
\* The __conditional__ comparisons made while the key k is resolved: the one
\* of line 362 for a choice-with-nested key in pass 1, the one of line 410
\* for a dict with __prompts__ in pass 2; _prompt_for_nested_config makes
\* none. `at` is the number of keys resolved before the comparison.
GateRecords(k) ==
    LET v == Get(schema, k)
    IN  IF pc = "pass1" /\ ~StartsWithUnderscore(k) /\ IsChoiceWithNested(v)
        THEN (IF ConditionCompared(Get(v[2], S("_")), no_input)
              THEN <<[path |-> <<k>>, form |-> "choice", at |-> Len(cookiecutter_dict)]>>
              ELSE <<>>)
        ELSE IF pc = "pass2" /\ IsNestedConfig(v) /\ Has(v[2], S("__conditional__"))
        THEN <<[path |-> <<k>>, form |-> "pass2", at |-> Len(cookiecutter_dict)]>>
        ELSE <<>>

\* Mutant: the resolved value is also written back into the schema.
Resolve_WritesBack(key, outcomes, in_try, inc) ==
    \E o \in outcomes :
        /\ asked' = asked \o o[3]
        /\ count' = count + inc
        /\ IF o[1] = "ok"
           THEN /\ cookiecutter_dict' = Put(cookiecutter_dict, key, o[2])
                /\ schema' = Put(schema, key, o[2])
                /\ writes' = Append(writes, [key |-> key, inc |-> inc, pass |-> pc])
                /\ idx' = idx + 1
                /\ UNCHANGED <<pc, err>>
           ELSE /\ pc' = "raised"
                /\ err' = Wrap(o[1], key, in_try)
                /\ UNCHANGED <<cookiecutter_dict, writes, idx, schema>>
        /\ gates' = gates \o (IF o[1] = "ok" THEN GateRecords(key) ELSE <<>>)
        /\ UNCHANGED <<op, no_input, calls, size, prompts, path_exists, ret>>
Resolve(key, outcomes, in_try, inc) ==
    \E o \in outcomes :
        /\ asked' = asked \o o[3]
        /\ count' = count + inc
        /\ IF o[1] = "ok"
           THEN /\ cookiecutter_dict' = Put(cookiecutter_dict, key, o[2])
                /\ writes' = Append(writes, [key |-> key, inc |-> inc, pass |-> pc])
                /\ idx' = idx + 1
                /\ UNCHANGED <<pc, err>>
           ELSE /\ pc' = "raised"
                /\ err' = Wrap(o[1], key, in_try)
                /\ UNCHANGED <<cookiecutter_dict, writes, idx>>
        /\ gates' = gates \o (IF o[1] = "ok" THEN GateRecords(key) ELSE <<>>)
        /\ UNCHANGED <<op, no_input, calls, schema, size, prompts, path_exists, ret>>

InPass(p) == pc = p /\ idx <= Len(schema)
key == schema[idx][1]
raw == schema[idx][2]

\* Mutant: a single-underscore key is rendered like a double-underscore one.
PrivateValue_Rendered(v, ctx) == IF RenderOK(v, ctx) THEN render_variable(v, ctx) ELSE v
\* What a single-underscore key stores.
PrivateValue(v, ctx) == v

Pass1Private ==
    /\ InPass("pass1") /\ IsPrivateKey(key)
    /\ Resolve(key, {<<"ok", PrivateValue(raw, cookiecutter_dict), <<>> >>}, FALSE, 0)

Pass1Dunder ==
    /\ InPass("pass1") /\ ~IsPrivateKey(key) /\ StartsWithDunder(key)
    /\ Resolve(key,
               IF RenderOK(raw, cookiecutter_dict)
               THEN {<<"ok", render_variable(raw, cookiecutter_dict), <<>> >>}
               ELSE {<<"UndefinedError", None, <<>> >>},
               FALSE, 0)

Visible1 == InPass("pass1") /\ ~StartsWithUnderscore(key)

Pass1ChoiceWithNested ==
    /\ Visible1 /\ IsChoiceWithNested(raw)
    /\ Resolve(key, ChoiceWithNestedOutcomes(cookiecutter_dict, key, raw, no_input), FALSE, 1)

Pass1List ==
    /\ Visible1 /\ IsList(raw)
    /\ Resolve(key, ListOutcomes(cookiecutter_dict, key, raw, no_input), TRUE, 1)

Pass1Bool ==
    /\ Visible1 /\ IsBool(raw)
    /\ Resolve(key, BoolOutcomes(cookiecutter_dict, key, raw, no_input), TRUE, 1)

Pass1Scalar ==
    /\ Visible1 /\ ~IsDict(raw) /\ ~IsList(raw) /\ ~IsBool(raw)
    /\ Resolve(key, ScalarOutcomes(cookiecutter_dict, key, raw, no_input), TRUE, 1)

\* A dict that is no choice-with-nested: nothing happens in pass 1.
Pass1Dict ==
    /\ Visible1 /\ IsDict(raw) /\ ~IsChoiceWithNested(raw)
    /\ idx' = idx + 1
    /\ UNCHANGED <<op, no_input, calls, gates, schema, pc, cookiecutter_dict, count, size,
                   prompts, asked, writes, path_exists, ret, err>>

Pass1Done ==
    /\ pc = "pass1" /\ idx > Len(schema)
    /\ pc' = "pass2"
    /\ idx' = 1
    /\ UNCHANGED <<op, no_input, calls, gates, schema, cookiecutter_dict, count, size,
                   prompts, asked, writes, path_exists, ret, err>>

Pass2Skip ==
    /\ InPass("pass2")
    /\ Has(cookiecutter_dict, key) \/ IsPrivateKey(key)
    /\ idx' = idx + 1
    /\ UNCHANGED <<op, no_input, calls, gates, schema, pc, cookiecutter_dict, count, size,
                   prompts, asked, writes, path_exists, ret, err>>

\* Mutant: pass 2 skips no key.
Todo2_All == InPass("pass2")
Todo2 == InPass("pass2") /\ ~Has(cookiecutter_dict, key) /\ ~IsPrivateKey(key)

Pass2NestedConfig ==
    /\ Todo2 /\ IsNestedConfig(raw)
    /\ Resolve(key, NestedConfigOutcomes(cookiecutter_dict, key, raw, no_input), TRUE, 0)

Pass2PlainDict ==
    /\ Todo2 /\ IsDict(raw) /\ ~IsNestedConfig(raw)
    /\ Resolve(key, PlainDictOutcomes(cookiecutter_dict, key, raw, no_input), TRUE, 1)

Pass2Done ==
    /\ pc = "pass2" /\ idx > Len(schema)
    /\ pc' = "returned"
    /\ ret' = D(cookiecutter_dict)
    /\ UNCHANGED <<op, no_input, calls, gates, schema, idx, cookiecutter_dict, count, size,
                   prompts, asked, writes, path_exists, err>>

(***************************************************************************)
(* choose_nested_template                                                  *)
(***************************************************************************)
\* prompt_choice_for_template: the first option key under no_input, else
\* the operator's choice among the option keys.
prompt_choice_for_template(tkey, options, noinput) ==
    LET opts == Keys(options[2])
    IN  IF noinput THEN {<<"ok", opts[1], <<>> >>}
        ELSE read_user_choice(tkey, tkey, opts)

\* re.search(r'\((.+)\)', val): the text between the first "(" and the last
\* ")" of the labels the model uses; None when the pattern does not match.
ParenGroup(val) ==
    CASE val = S("A (tpl1)") -> S("tpl1")
      [] val = S("B (/abs)") -> S("/abs")
      [] OTHER -> None

\* Path(template).is_absolute() of the paths the model uses.
IsAbsolute(template) == template = S("/abs")

\* The selected template: <<exception or "ok", template, entries>>.
SelectTemplate(ctx, noinput) ==
    LET config == GetOr(schema, S("templates"), D(<<>>))
        legacy == GetOr(schema, S("template"), L(<<>>))
    IN  IF Truthy(config)
        THEN { IF c[1] # "ok" THEN c
               ELSE <<"ok", Get(Get(config[2], c[2])[2], S("path")), c[3]>> :
               c \in prompt_choice_for_template(S("templates"), config, noinput) }
        ELSE { IF c[1] # "ok" THEN c
               ELSE IF ParenGroup(c[2]) = None THEN <<"AttributeError", None, c[3]>>
               ELSE <<"ok", ParenGroup(c[2]), c[3]>> :
               c \in prompt_choice_for_config(ctx, S("template"), S("template"),
                                              legacy, noinput) }

IllegalTemplatePath == <<"ValueError", "Illegal template path">>

ChooseNestedTemplate ==
    /\ op = "choose_nested_template" /\ pc = "start"
    /\ prompts' = GetOr(schema, S("__prompts__"), D(<<>>))
    /\ schema' = Without(schema, {S("__prompts__")})
    /\ \E o \in SelectTemplate(<<>>, no_input) :
        /\ asked' = asked \o o[3]
        /\ IF o[1] # "ok"
           THEN pc' = "raised" /\ err' = <<o[1]>> /\ ret' = ret
           ELSE IF ~(Truthy(o[2]) /\ ~IsAbsolute(o[2]))
           THEN pc' = "raised" /\ err' = IllegalTemplatePath /\ ret' = ret
           ELSE pc' = "returned" /\ err' = err /\ ret' = <<"path", "repo_dir", o[2]>>
    /\ UNCHANGED <<op, no_input, calls, gates, idx, cookiecutter_dict, count, size, writes,
                   path_exists>>

(***************************************************************************)
(* prompt_and_delete                                                       *)
(***************************************************************************)
\* Mutant: the path is deleted whatever the answer to the delete question.
PromptAndDelete_AlwaysDeletes ==
    /\ op = "prompt_and_delete" /\ pc = "start"
    /\ \E o \in (IF no_input THEN {<<"ok", B(TRUE), <<>> >>}
                 ELSE read_user_yes_no(S("delete"), S("delete"), S("yes"))) :
        /\ asked' = asked \o o[3]
        /\ path_exists' = FALSE
        /\ IF Truthy(o[2])
           THEN ret' = B(TRUE) /\ pc' = "returned"
           ELSE ret' = ret /\ pc' = "reuse"
    /\ UNCHANGED <<op, no_input, calls, gates, schema, idx, cookiecutter_dict, count, size,
                   prompts, writes, err>>
\* Up to the first return: the delete question unless no_input, then the
\* deletion, or on to the reuse question.
PromptAndDelete ==
    /\ op = "prompt_and_delete" /\ pc = "start"
    /\ \E o \in (IF no_input THEN {<<"ok", B(TRUE), <<>> >>}
                 ELSE read_user_yes_no(S("delete"), S("delete"), S("yes"))) :
        /\ asked' = asked \o o[3]
        /\ IF Truthy(o[2])
           THEN path_exists' = FALSE /\ ret' = B(TRUE) /\ pc' = "returned"
           ELSE path_exists' = path_exists /\ ret' = ret /\ pc' = "reuse"
    /\ UNCHANGED <<op, no_input, calls, gates, schema, idx, cookiecutter_dict, count, size,
                   prompts, writes, err>>

\* The reuse question: return False, or sys.exit().
PromptReuse ==
    /\ op = "prompt_and_delete" /\ pc = "reuse"
    /\ \E o \in read_user_yes_no(S("reuse"), S("reuse"), S("yes")) :
        /\ asked' = asked \o o[3]
        /\ IF Truthy(o[2])
           THEN ret' = B(FALSE) /\ pc' = "returned"
           ELSE ret' = ret /\ pc' = "exited"
    /\ UNCHANGED <<op, no_input, calls, gates, schema, idx, cookiecutter_dict, count, size,
                   prompts, writes, path_exists, err>>

Next ==
    \/ Start
    \/ Pass1Private
    \/ Pass1Dunder
    \/ Pass1ChoiceWithNested
    \/ Pass1List
    \/ Pass1Bool
    \/ Pass1Scalar
    \/ Pass1Dict
    \/ Pass1Done
    \/ Pass2Skip
    \/ Pass2NestedConfig
    \/ Pass2PlainDict
    \/ Pass2Done
    \/ ChooseNestedTemplate
    \/ PromptAndDelete
    \/ PromptReuse

Spec == Init /\ [][Next]_vars

(***************************************************************************)
(* A caller that calls prompt_for_config again on the same schema object.  *)
(***************************************************************************)
MaxCalls == 2

\* The call has ended; the caller keeps how it ended and calls
\* prompt_for_config again, in no-input mode, with the same context mapping
\* object (the first call's pop of __prompts__ stays done). The histories
\* start afresh with the new call.
CallAgain ==
    /\ op = "prompt_for_config" /\ no_input
    /\ pc \in {"returned", "raised"}
    /\ Len(calls) + 1 < MaxCalls
    /\ calls' = Append(calls, [ret |-> ret, err |-> err, prompts |-> prompts])
    /\ pc' = "start"
    /\ ret' = None
    /\ err' = NoErr
    /\ asked' = <<>>
    /\ writes' = <<>>
    /\ gates' = <<>>
    /\ UNCHANGED <<op, no_input, schema, idx, cookiecutter_dict, count, size,
                   prompts, path_exists>>

NextTwice == Next \/ CallAgain
SpecTwice == Init /\ [][NextTwice]_vars

(***************************************************************************)
(* read_user_yes_no called on its own for a Boolean key `flag`.            *)
(***************************************************************************)
InitYesNo ==
    /\ op = "read_user_yes_no"
    /\ no_input = FALSE
    /\ schema \in {<< Pair("flag", B(b)) >> : b \in BOOLEAN}
    /\ pc = "start"
    /\ idx = 1
    /\ cookiecutter_dict = <<>>
    /\ count = 0
    /\ size = 0
    /\ prompts = D(<<>>)
    /\ asked = <<>>
    /\ writes = <<>>
    /\ path_exists = TRUE
    /\ ret = None
    /\ err = NoErr
    /\ calls = <<>>
    /\ gates = <<>>

\* YesNoPrompt.ask: the answers it rejects and the one it returns.
ReadUserYesNo ==
    /\ op = "read_user_yes_no" /\ pc = "start"
    /\ \E o \in read_user_yes_no(key, key, raw) :
        /\ asked' = asked \o o[3]
        /\ ret' = o[2]
        /\ pc' = "returned"
    /\ UNCHANGED <<op, no_input, calls, gates, schema, idx, cookiecutter_dict, count, size,
                   prompts, writes, path_exists, err>>

SpecYesNo == InitYesNo /\ [][ReadUserYesNo]_vars

(***************************************************************************)
(* Properties                                                              *)
(***************************************************************************)
IsPrefix(a, b) == Len(a) <= Len(b) /\ SubSeq(b, 1, Len(a)) = a
Config == op = "prompt_for_config" /\ pc # "start"
Returned == op = "prompt_for_config" /\ pc = "returned"
\* The raw value of a schema key, and the context as it was when the key at
\* position i of the context was resolved.
RawOf(k) == Get(schema, k)
Before(i) == SubSeq(cookiecutter_dict, 1, i - 1)
AskedFor(k, kind) == SelectSeq(asked, LAMBDA e : e.owner = k /\ e.kind = kind)

\* The keys the claim assigns to pass 1, and the order it states.
FirstPassShape(k, v) ==
    \/ StartsWithUnderscore(k)
    \/ ~IsDict(v)
    \/ (Has(v[2], S("choices")) /\ Has(v[2], S("_")))
StatedOrder(d) ==
    Keys(SelectSeq(d, LAMBDA e : FirstPassShape(e[1], e[2])))
    \o Keys(SelectSeq(d, LAMBDA e : ~FirstPassShape(e[1], e[2])))

\* C1: the keys of the context are the pass-1 keys (underscore-prefixed,
\* scalar, boolean, list, choice-with-nested) in schema order followed by the
\* deferred dict keys in schema order; at every step the keys so far are a
\* prefix of that sequence, and the returned context holds all of it.
C1_KeyOrder ==
    Config =>
        /\ IsPrefix(Keys(cookiecutter_dict), StatedOrder(schema))
        /\ pc = "returned" =>
             /\ Keys(cookiecutter_dict) = StatedOrder(schema)
             /\ ret = D(cookiecutter_dict)
\* A returned context with two deferred dict keys declared before a pass-1 key.
C1_Witness ==
    /\ Returned
    /\ Len(schema) = 3
    /\ ~FirstPassShape(schema[1][1], schema[1][2])
    /\ ~FirstPassShape(schema[2][1], schema[2][2])
    /\ FirstPassShape(schema[3][1], schema[3][2])
    /\ Keys(cookiecutter_dict) = <<schema[3][1], schema[1][1], schema[2][1]>>

\* What a key resolves to without the operator, by the shape of its raw
\* value v, against the context c built before it.
RECURSIVE StripDeep(_)
StripDeep(v) ==
    IF IsDict(v) /\ Has(v[2], S("__prompts__"))
    THEN LET f == Without(v[2], ReservedKeys)
         IN  D([i \in 1..Len(f) |-> <<f[i][1], StripDeep(f[i][2])>>])
    ELSE v
GateMatches(v, c) ==
    LET g == Get(v[2], S("__conditional__"))
    IN  PyEq(GetOr(c, GetOr(g[2], S("option"), None), None), GetOr(g[2], S("value"), None))
DefaultOf(k, v, c) ==
    CASE k[2] \in PrivateNames -> v
      [] k[2] \in DunderNames -> render_variable(v, c)
      [] IsDict(v) /\ Has(v[2], S("choices")) /\ Has(v[2], S("_")) ->
            D(<< <<S("choice"), render_variable(Keys(Get(v[2], S("choices"))[2])[1], c)>> >>)
      [] IsList(v) -> D(<< <<S("choice"), render_variable(v[2][1], c)>> >>)
      [] IsDict(v) /\ Has(v[2], S("__prompts__")) ->
            IF Has(v[2], S("__conditional__")) /\ ~GateMatches(v, c)
            THEN D(Without(v[2], ReservedKeys))
            ELSE StripDeep(v)
      [] OTHER -> render_variable(v, c)

\* C2 as stated: under no_input every stored value is the key's default
\* rendered against the context built so far.
C2_Original ==
    (Config /\ no_input) =>
        \A i \in 1..Len(cookiecutter_dict) :
            /\ RenderOK(RawOf(cookiecutter_dict[i][1]), Before(i))
            /\ cookiecutter_dict[i][2] =
                  render_variable(RawOf(cookiecutter_dict[i][1]), Before(i))
\* C2 amended: under no_input no value comes from the operator and every
\* stored value is fixed by the schema and the context built so far: the
\* rendered default for a double-underscore key, a scalar, a boolean and a
\* plain dict; the raw value unrendered for a single-underscore key;
\* {choice: first rendered option} for a list and for a choice-with-nested
\* key; for a dict carrying __prompts__, its raw fields unrendered, the
\* reserved markers removed at every level that carries __prompts__ (at the
\* top level only when its __conditional__ does not match).
C2_NoInputDefaults ==
    (Config /\ no_input) =>
        /\ asked = <<>>
        /\ \A i \in 1..Len(cookiecutter_dict) :
              cookiecutter_dict[i][2] =
                  DefaultOf(cookiecutter_dict[i][1], RawOf(cookiecutter_dict[i][1]), Before(i))
\* A context returned under no_input holding a rendered scalar, a list's
\* choice and an unrendered nested config.
C2_Witness ==
    /\ Returned /\ no_input
    /\ Has(cookiecutter_dict, S("name"))
    /\ Has(cookiecutter_dict, S("opt"))
    /\ Has(cookiecutter_dict, S("cfg"))
    /\ Get(cookiecutter_dict, S("opt")) = D(<< <<S("choice"), S("App")>> >>)
    /\ Get(cookiecutter_dict, S("cfg")) = D(<< <<S("host"), T("name")>> >>)

Finished == pc \in {"returned", "raised", "exited"}

\* C3: under no_input no prompt-provider operation is invoked by any of
\* the three functions, and a run that has not returned or raised can take
\* its next step: it never stands at a question.
C3_NoPromptUnderNoInput ==
    no_input =>
        /\ asked = <<>>
        /\ pc # "reuse"
        /\ Finished \/ ENABLED Next
\* A context returned under no_input for a schema holding a scalar, a list
\* and a choice with a nested config, each of which prompts when interactive.
C3_Witness ==
    /\ Returned /\ no_input
    /\ Has(cookiecutter_dict, S("name"))
    /\ Has(cookiecutter_dict, S("opt"))
    /\ Has(cookiecutter_dict, S("db"))

\* val is a resolution of the nested config cfg made for the top-level key
\* k: it holds exactly cfg's fields other than the markers, in order; a
\* field that is a nested config is resolved the same way; any other field
\* holds its raw default under no_input, and otherwise what the nested text
\* prompt, offered that default, returned.
RECURSIVE FieldResolved(_, _, _, _)
FieldResolved(val, f, v, k) ==
    IF IsDict(v) /\ Has(v[2], S("__prompts__"))
    THEN LET fs == Without(v[2], ReservedKeys)
         IN  /\ IsDict(val)
             /\ Keys(val[2]) = Keys(fs)
             /\ \A j \in 1..Len(fs) : FieldResolved(val[2][j][2], fs[j][1], fs[j][2], k)
    ELSE IF no_input THEN val = v
    ELSE \E n \in 1..Len(asked) :
            /\ asked[n].kind = "nested" /\ asked[n].owner = k /\ asked[n].var = f
            /\ asked[n].default = v /\ asked[n].value = val
KeySet(d) == {d[i][1] : i \in 1..Len(d)}
MergedWith(val, sel, cfg, k) ==
    LET fs == Without(cfg[2], ReservedKeys)
    IN  /\ IsDict(val)
        /\ KeySet(val[2]) = {S("choice")} \cup KeySet(fs)
        /\ \A j \in 1..Len(fs) :
              FieldResolved(Get(val[2], fs[j][1]), fs[j][1], fs[j][2], k)
        /\ S("choice") \notin KeySet(fs) => Get(val[2], S("choice")) = sel
IsChoiceShape(v) == IsDict(v) /\ Has(v[2], S("choices")) /\ Has(v[2], S("_"))

\* C4: in interactive mode a choice-with-nested key stores {choice:
\* selection} merged with every resolved nested field when its nested config
\* has no __conditional__, or has one whose target value the selection equals;
\* when the selection differs from the target it stores exactly {choice:
\* selection} and no nested field is prompted.
C4_ChoiceWithNested ==
    (Config /\ ~no_input) =>
        \A i \in 1..Len(cookiecutter_dict) :
            LET k == cookiecutter_dict[i][1]
                val == cookiecutter_dict[i][2]
                cfg == Get(RawOf(k)[2], S("_"))
                ch == AskedFor(k, "choice")
            IN  (~StartsWithUnderscore(k) /\ IsChoiceShape(RawOf(k))) =>
                  /\ Len(ch) = 1
                  /\ IF ~Has(cfg[2], S("__conditional__"))
                     THEN MergedWith(val, ch[1].value, cfg, k)
                     ELSE Has(Get(cfg[2], S("__conditional__"))[2], S("value")) =>
                            IF PyEq(ch[1].value,
                                    Get(Get(cfg[2], S("__conditional__"))[2], S("value")))
                            THEN MergedWith(val, ch[1].value, cfg, k)
                            ELSE /\ val = D(<< <<S("choice"), ch[1].value>> >>)
                                 /\ AskedFor(k, "nested") = <<>>
\* An interactive run where the operator chose the first, rendered option of
\* "db", which equals the target of its __conditional__, and answered the
\* nested "port" field.
C4_Witness ==
    /\ Config /\ ~no_input
    /\ Has(cookiecutter_dict, S("db"))
    /\ RawOf(S("db")) = db_conditional
    /\ Get(cookiecutter_dict, S("db")) =
          D(<< <<S("choice"), S("App")>>, <<S("port"), Typed>> >>)

\* C5: under no_input a choice-with-nested key stores exactly {choice:
\* first rendered option}; no nested field is resolved or merged, with or
\* without __conditional__, whether or not the first option is its target.
C5_NoInputChoiceOnly ==
    (Config /\ no_input) =>
        \A i \in 1..Len(cookiecutter_dict) :
            LET k == cookiecutter_dict[i][1]
                first == Keys(Get(RawOf(k)[2], S("choices"))[2])[1]
            IN  (~StartsWithUnderscore(k) /\ IsChoiceShape(RawOf(k))) =>
                  /\ cookiecutter_dict[i][2] =
                        D(<< <<S("choice"), render_variable(first, Before(i))>> >>)
                  /\ AskedFor(k, "nested") = <<>>
\* Under no_input the first option of "db" renders to "App", the target of
\* its __conditional__, and only the choice is stored.
C5_Witness ==
    /\ Config /\ no_input
    /\ Has(cookiecutter_dict, S("db"))
    /\ RawOf(S("db")) = db_conditional
    /\ Get(cookiecutter_dict, S("db")) = D(<< <<S("choice"), S("App")>> >>)

\* C6: every render failure met while prompt_for_config resolves a key
\* leaves the function as UndefinedVariableInTemplate carrying the key and
\* the schema; jinja2's UndefinedError never leaves it unwrapped.
C6_RenderFailuresWrapped ==
    (op = "prompt_for_config" /\ pc = "raised") =>
        /\ err[1] # "UndefinedError"
        /\ err[1] = "UndefinedVariableInTemplate" =>
              (err[2] = schema[idx][1] /\ err[3] = schema)

IsDeferredNestedConfig(k, v) ==
    /\ ~StartsWithUnderscore(k)
    /\ IsDict(v) /\ Has(v[2], S("__prompts__")) /\ ~IsChoiceShape(v)

\* C7: in pass 2 a dict carrying __prompts__ is resolved by the nested
\* config resolver when it has no __conditional__, or when the context's
\* value for the condition's option equals the condition's value; otherwise
\* it stores its raw fields with __prompts__ and __conditional__ removed,
\* unrendered, and nothing is prompted for it.
C7_DeferredNestedConfig ==
    Config =>
        \A i \in 1..Len(cookiecutter_dict) :
            LET k == cookiecutter_dict[i][1]
                val == cookiecutter_dict[i][2]
                v == RawOf(k)
                g == Get(v[2], S("__conditional__"))
            IN  IsDeferredNestedConfig(k, v) =>
                  IF ~Has(v[2], S("__conditional__"))
                  THEN FieldResolved(val, k, v, k)
                  ELSE (Has(g[2], S("option")) /\ Has(g[2], S("value"))) =>
                         IF PyEq(GetOr(Before(i), Get(g[2], S("option")), None),
                                 Get(g[2], S("value")))
                         THEN FieldResolved(val, k, v, k)
                         ELSE /\ val = D(Without(v[2], ReservedKeys))
                              /\ AskedFor(k, "nested") = <<>>
\* An interactive run where the operator answered "flag" with False, so
\* that the gate of "cfg" (flag = True) fails and its raw fields are stored.
C7_Witness ==
    /\ Returned /\ ~no_input
    /\ Has(cookiecutter_dict, S("flag"))
    /\ Get(cookiecutter_dict, S("flag")) = B(FALSE)
    /\ Has(cookiecutter_dict, S("cfg"))
    /\ RawOf(S("cfg")) = cfg_conditional
    /\ Get(Get(cookiecutter_dict, S("cfg"))[2], S("host")) = T("name")

IsPlainDict(k, v) ==
    /\ ~StartsWithUnderscore(k)
    /\ IsDict(v) /\ ~IsChoiceShape(v)
    /\ ~Has(v[2], S("__prompts__")) /\ ~Has(v[2], S("__conditional__"))

\* C8: a visible plain dict key resolves, under no_input, to its subtree
\* rendered against the context (keys and values) with no prompt; in
\* interactive mode, to exactly the mapping the JSON prompt returned, that
\* prompt having been offered the rendered subtree as its default: the
\* parsed object when the operator typed one, the default on empty input.
C8_PlainDict ==
    Config =>
        \A i \in 1..Len(cookiecutter_dict) :
            LET k == cookiecutter_dict[i][1]
                val == cookiecutter_dict[i][2]
                js == AskedFor(k, "json")
            IN  IsPlainDict(k, RawOf(k)) =>
                  /\ RenderOK(RawOf(k), Before(i))
                  /\ IF no_input
                     THEN val = render_variable(RawOf(k), Before(i)) /\ js = <<>>
                     ELSE /\ Len(js) = 1
                          /\ js[1].default = render_variable(RawOf(k), Before(i))
                          /\ val = js[1].value
                          /\ val = IF js[1].input = S("") THEN js[1].default
                                   ELSE process_json(js[1].input[2])
\* An interactive run where the operator typed {"k": "v"} for "extra",
\* whose rendered default held the keys "k" and "App".
C8_Witness ==
    /\ Returned /\ ~no_input
    /\ Has(cookiecutter_dict, S("extra"))
    /\ Get(cookiecutter_dict, S("extra")) = D(<< <<S("k"), S("v")>> >>)
    /\ AskedFor(S("extra"), "json")[1].default =
          D(<< <<S("k"), S("1")>>, <<S("App"), L(<<S("App"), B(TRUE)>>)>> >>)

\* The 1-based index an answer to the choice prompt selects; no input
\* selects the first option.
SelectedIndex(input) ==
    CASE input = S("") -> 1 [] input = S("1") -> 1 [] input = S("2") -> 2 [] OTHER -> 0

\* C9: a visible list key resolves to exactly {choice: v}, v an element of
\* the list's rendered options: the first under no_input, and in interactive
\* mode the one whose 1-based index the operator selected (the first on no
\* input).
C9_ListChoice ==
    Config =>
        \A i \in 1..Len(cookiecutter_dict) :
            LET k == cookiecutter_dict[i][1]
                val == cookiecutter_dict[i][2]
                v == RawOf(k)
                ch == AskedFor(k, "choice")
            IN  (~StartsWithUnderscore(k) /\ IsList(v)) =>
                  /\ v[2] # <<>>
                  /\ \A j \in 1..Len(v[2]) : RenderOK(v[2][j], Before(i))
                  /\ IF no_input
                     THEN /\ ch = <<>>
                          /\ val = D(<< <<S("choice"), render_variable(v[2][1], Before(i))>> >>)
                     ELSE /\ Len(ch) = 1
                          /\ SelectedIndex(ch[1].input) \in 1..Len(v[2])
                          /\ val = D(<< <<S("choice"),
                                          render_variable(v[2][SelectedIndex(ch[1].input)],
                                                          Before(i))>> >>)
\* An interactive run where the operator answered "2" for "opt", after
\* "name" had been answered: the second of the rendered options is stored.
C9_Witness ==
    /\ Returned /\ ~no_input
    /\ Has(cookiecutter_dict, S("opt"))
    /\ AskedFor(S("opt"), "choice")[1].input = S("2")
    /\ AskedFor(S("opt"), "choice")[1].default = L(<<Typed, S("b")>>)
    /\ Get(cookiecutter_dict, S("opt")) = D(<< <<S("choice"), S("b")>> >>)

\* C10: a key beginning with a single underscore is copied into the
\* context with its raw value unchanged, in both modes: it is not rendered
\* (its templates stay as written and it never raises), nothing is asked
\* about it, storing it leaves the progress counter as it was, and the total
\* of visible questions does not count it.
C10_PrivateKeys ==
    Config =>
        /\ \A i \in 1..Len(cookiecutter_dict) :
              cookiecutter_dict[i][1][2] \in PrivateNames =>
                  cookiecutter_dict[i][2] = RawOf(cookiecutter_dict[i][1])
        /\ \A n \in 1..Len(asked) :
              asked[n].owner[2] \notin PrivateNames /\ asked[n].var[2] \notin PrivateNames
        /\ \A n \in 1..Len(writes) : writes[n].key[2] \in PrivateNames => writes[n].inc = 0
        /\ pc = "raised" => schema[idx][1][2] \notin PrivateNames
        /\ size = Cardinality({i \in 1..Len(schema) :
                                 schema[i][1][2] \notin PrivateNames \cup DunderNames})
\* A returned context where "_priv", declared after "name", still holds its
\* template as written.
C10_Witness ==
    /\ Returned
    /\ Len(cookiecutter_dict) >= 2
    /\ cookiecutter_dict[1][1] = S("name")
    /\ cookiecutter_dict[2][1] = S("_priv")
    /\ cookiecutter_dict[2][2] = D(<< <<S("k"), T("name")>> >>)
    /\ size = Len(schema) - 1


\* C11: when a no-input prompt_for_config call has returned a context and
\* the same schema object is resolved again under no-input mode, the second
\* call returns too, and its context equals the first one (same keys, same
\* order, same values), also when the first call popped a __prompts__ entry.
C11_Idempotent ==
    (op = "prompt_for_config" /\ no_input /\ Len(calls) = 1
        /\ calls[1].err = NoErr /\ pc \in {"returned", "raised"})
    => (pc = "returned" /\ ret = calls[1].ret)
C11_Witness ==
    /\ op = "prompt_for_config" /\ no_input /\ Len(calls) = 1
    /\ calls[1].err = NoErr /\ pc = "returned"
    /\ calls[1].prompts # D(<<>>)
    /\ prompts = D(<<>>)
    /\ Len(ret[2]) >= 2

\* The accepted answers to the question `q` of prompt_and_delete, in order.
Answers(q) == SelectSeq(asked, LAMBDA e : e.kind = "yesno" /\ e.var = S(q))
Declined(q) == Len(Answers(q)) = 1 /\ ~Truthy(Answers(q)[1].value)
Accepted(q) == Len(Answers(q)) = 1 /\ Truthy(Answers(q)[1].value)

\* C12: prompt_and_delete under no-input mode asks nothing, deletes the path
\* and returns True; in interactive mode the delete question comes first and
\* yes deletes the path and returns True; the reuse question is asked only
\* after the delete question was declined, yes returns False and no ends the
\* process, both with the path kept; the path is never deleted after the
\* operator declined deletion.
C12_DeleteProtocol ==
    op = "prompt_and_delete" =>
        /\ Len(Answers("delete")) <= 1 /\ Len(Answers("reuse")) <= 1
        /\ pc = "start" => (asked = <<>> /\ path_exists)
        /\ (no_input /\ pc # "start")
             => (asked = <<>> /\ ~path_exists /\ pc = "returned" /\ ret = B(TRUE))
        /\ (~no_input /\ pc # "start")
             => /\ asked[1].var = S("delete")
                /\ Accepted("delete") \/ Declined("delete")
        /\ Accepted("delete")
             => (~path_exists /\ pc = "returned" /\ ret = B(TRUE)
                    /\ Answers("reuse") = <<>>)
        /\ Declined("delete") => path_exists
        /\ (\E i \in 1..Len(asked) : asked[i].var = S("reuse"))
             => (Declined("delete")
                    /\ \A i \in 1..Len(asked) :
                         asked[i].var = S("reuse")
                           => \E j \in 1..(i-1) : asked[j] = Answers("delete")[1])
        /\ (Declined("delete") /\ Answers("reuse") = <<>>) => pc = "reuse"
        /\ Accepted("reuse") => (pc = "returned" /\ ret = B(FALSE) /\ path_exists)
        /\ Declined("reuse") => (pc = "exited" /\ path_exists)
        /\ pc \in {"start", "reuse", "returned", "exited"}
C12_Witness ==
    /\ op = "prompt_and_delete" /\ ~no_input
    /\ Declined("delete") /\ Declined("reuse")
    /\ pc = "exited" /\ path_exists

\* The template options of the schema: the keys of `templates`, or else the
\* labels of the legacy `template` list.
TemplateOptions ==
    IF Truthy(GetOr(schema, S("templates"), D(<<>>)))
    THEN Keys(GetOr(schema, S("templates"), D(<<>>))[2])
    ELSE GetOr(schema, S("template"), L(<<>>))[2]

\* C13: once a template has been selected, choose_nested_template returns a
\* path only when the selected path is non-empty and not absolute, and
\* otherwise fails with the illegal-template-path error, never with a
\* different error.
C13_IllegalPathOnly ==
    (op = "choose_nested_template" /\ pc # "start" /\ TemplateOptions # <<>>)
    => \/ /\ pc = "returned"
          /\ Truthy(ret[3]) /\ ~IsAbsolute(ret[3])
       \/ /\ pc = "raised"
          /\ err = IllegalTemplatePath

\* The key at position i of the schema asks for a choice over zero options.
ZeroOptions(i) ==
    LET k == schema[i][1]
        v == schema[i][2]
    IN  /\ ~StartsWithUnderscore(k)
        /\ \/ v = L(<<>>)
           \/ IsChoiceShape(v) /\ Iter(Get(v[2], S("choices"))) = <<>>

\* C14: a choice over zero options (a list-valued or choice-with-nested key
\* of prompt_for_config, the template options of choose_nested_template)
\* aborts the run with the ValueError of read_user_choice, in interactive
\* and in no-input mode alike: no prompt for it is shown, the run never gets
\* past it and no context is returned.
C14_EmptyChoiceSet ==
    /\ op = "prompt_for_config"
         => \A i \in 1..Len(schema) :
              (ZeroOptions(i) /\ pc # "start")
              => /\ AskedFor(schema[i][1], "choice") = <<>>
                 /\ ~Has(cookiecutter_dict, schema[i][1])
                 /\ pc # "returned"
                 /\ (pc = "pass1" => idx <= i)
                 /\ (pc = "raised" /\ idx = i) => err = <<"ValueError">>
    /\ (op = "choose_nested_template" /\ TemplateOptions = <<>> /\ pc # "start")
         => (pc = "raised" /\ err = <<"ValueError">> /\ asked = <<>>)

\* The answer `t` with surrounding whitespace removed and in lower case is
\* one of the spellings of yes, of no.
SpellsYes(t) == StripLower(t) \in {"1", "true", "t", "yes", "y", "on"}
SpellsNo(t) == StripLower(t) \in {"0", "false", "f", "no", "n", "off"}

\* C15: at a yes/no question every answer that spells yes after trimming and
\* lowercasing gives True and every answer that spells no gives False; every
\* other non-empty answer is rejected and the question is asked again, so
\* the rejected answer is never the value returned and no error reaches the
\* caller.
C15_YesNoMapping ==
    /\ \A i \in 1..Len(asked) :
         LET e == asked[i]
         IN  /\ e.kind = "yesno"
                  => /\ e.input # S("") => (SpellsYes(e.input[2]) \/ SpellsNo(e.input[2]))
                     /\ (e.input # S("") /\ SpellsYes(e.input[2])) => e.value = B(TRUE)
                     /\ (e.input # S("") /\ SpellsNo(e.input[2])) => e.value = B(FALSE)
                     /\ e.input = S("") => e.value = e.default
             /\ e.kind = "invalid"
                  => /\ ~SpellsYes(e.input[2]) /\ ~SpellsNo(e.input[2])
                     /\ e.value = None
                     /\ \E j \in (i+1)..Len(asked) :
                          /\ asked[j].kind = "yesno" /\ asked[j].var = e.var
                          /\ \A m \in (i+1)..(j-1) : asked[m].kind = "invalid"
    /\ (op = "read_user_yes_no" /\ pc # "start")
         => /\ pc = "returned" /\ err = NoErr
            /\ asked[Len(asked)].kind = "yesno"
            /\ ret = asked[Len(asked)].value
            /\ IsBool(ret)
C15_Witness ==
    /\ op = "read_user_yes_no" /\ pc = "returned"
    /\ Len(asked) = 2
    /\ asked[1].kind = "invalid" /\ asked[1].input = S("Yes!")
    /\ asked[2].input = S(" On") /\ ret = B(TRUE)
    /\ raw = B(FALSE)

\* C16: every visible key that a run of prompt_for_config has resolved has
\* incremented the progress counter exactly once, whatever its shape, and
\* when the run returns the counter equals the number of visible keys.
C16_CounterOncePerKey ==
    op = "prompt_for_config" =>
        /\ \A n \in 1..Len(writes) :
             ~StartsWithUnderscore(writes[n].key) => writes[n].inc = 1
        /\ pc = "returned" => count = size

\* C17: no step of prompt_for_config assigns a key that is already in the
\* context: every step leaves the entries written so far as they are, and
\* what it adds is a key that was absent; pass 2 writes only keys that pass 1
\* left out.
C17_NeverRewritten ==
    [][op = "prompt_for_config"
         => /\ IsPrefix(cookiecutter_dict, cookiecutter_dict')
            /\ \A i \in (Len(cookiecutter_dict) + 1)..Len(cookiecutter_dict') :
                 ~Has(cookiecutter_dict, cookiecutter_dict'[i][1])]_vars
C17_Witness ==
    /\ op = "prompt_for_config" /\ pc = "returned"
    /\ Len(writes) = 3
    /\ writes[1].pass = "pass1" /\ writes[2].pass = "pass1"
    /\ writes[3].pass = "pass2"
    /\ IsChoiceShape(RawOf(writes[2].key))

\* The comparisons recorded for the nested config at `path`, and the nested
\* configs carrying __conditional__ directly inside the nested config v.
GatesOf(path) == SelectSeq(gates, LAMBDA g : g.path = path)
InnerGated(v) ==
    {f \in 1..Len(v[2]) :
        /\ v[2][f][1] \notin ReservedKeys
        /\ IsNestedConfig(v[2][f][2])
        /\ Has(v[2][f][2][2], S("__conditional__"))}
OnceAt(path, form, n) ==
    /\ Len(GatesOf(path)) = 1
    /\ GatesOf(path)[1].form = form
    /\ GatesOf(path)[1].at = n

\* C18 as stated: every nested config carrying __conditional__ that the
\* run reached (the `_` of a resolved choice-with-nested key, a resolved
\* pass-2 nested config, a nested config inside a resolved one) had its gate
\* compared exactly once, in both modes, right when its key was resolved and,
\* for the pass-2 form, against a value present in the context.
C18_Original ==
    Config =>
        \A i \in 1..Len(cookiecutter_dict) :
            LET k == cookiecutter_dict[i][1]
                v == RawOf(k)
            IN  /\ (~StartsWithUnderscore(k) /\ IsChoiceShape(v)
                      /\ Has(Get(v[2], S("_"))[2], S("__conditional__")))
                     => OnceAt(<<k>>, "choice", i - 1)
                /\ (IsDeferredNestedConfig(k, v) /\ Has(v[2], S("__conditional__")))
                     => /\ OnceAt(<<k>>, "pass2", i - 1)
                        /\ Has(Before(i),
                               GetOr(Get(v[2], S("__conditional__"))[2], S("option"), None))
                /\ (IsDeferredNestedConfig(k, v)
                      /\ (Has(v[2], S("__conditional__")) => GateMatches(v, Before(i))))
                     => \A f \in InnerGated(v) : Len(GatesOf(<<k, v[2][f][1]>>)) = 1

\* C18 amended: the gate of a choice-with-nested key is compared exactly
\* once, right when the key is resolved, in interactive mode, and never
\* under no_input; the gate of a pass-2 nested config is compared exactly
\* once in both modes, against the context as it stands when the key is
\* resolved; the __conditional__ of a nested config inside another is never
\* compared.
C18_GateOnce ==
    Config =>
        /\ \A i \in 1..Len(cookiecutter_dict) :
            LET k == cookiecutter_dict[i][1]
                v == RawOf(k)
            IN  /\ (~StartsWithUnderscore(k) /\ IsChoiceShape(v)
                      /\ Truthy(GetOr(Get(v[2], S("_"))[2], S("__conditional__"), None)))
                     => IF no_input THEN GatesOf(<<k>>) = <<>>
                        ELSE OnceAt(<<k>>, "choice", i - 1)
                /\ (IsDeferredNestedConfig(k, v) /\ Has(v[2], S("__conditional__")))
                     => OnceAt(<<k>>, "pass2", i - 1)
        /\ \A n \in 1..Len(gates) :
             /\ Len(gates[n].path) = 1
             /\ Has(cookiecutter_dict, gates[n].path[1])
             /\ Has(IF gates[n].form = "choice"
                    THEN Get(RawOf(gates[n].path[1])[2], S("_"))[2]
                    ELSE RawOf(gates[n].path[1])[2], S("__conditional__"))
C18_Witness ==
    /\ Returned /\ ~no_input
    /\ Has(schema, S("db")) /\ RawOf(S("db")) = db_conditional
    /\ Has(schema, S("cfg")) /\ RawOf(S("cfg")) = cfg_conditional
    /\ Len(gates) = 2
    /\ gates[1] = [path |-> <<S("db")>>, form |-> "choice", at |-> 1]
    /\ gates[2] = [path |-> <<S("cfg")>>, form |-> "pass2", at |-> 2]

\* C19: when the nested fields of a choice-with-nested key were merged into
\* its record (interactive mode, no __conditional__ or the selection equal
\* to its target), the record's `choice` entry is the selected option and
\* every resolved nested field is in the record, whatever the fields are
\* called.
C19_ChoiceKept ==
    (Config /\ ~no_input) =>
        \A i \in 1..Len(cookiecutter_dict) :
            LET k == cookiecutter_dict[i][1]
                val == cookiecutter_dict[i][2]
                cfg == Get(RawOf(k)[2], S("_"))
                fs == Without(cfg[2], ReservedKeys)
                ch == AskedFor(k, "choice")
            IN  (/\ ~StartsWithUnderscore(k) /\ IsChoiceShape(RawOf(k))
                 /\ NestedGate(ch[1].value, cfg, no_input))
                => /\ IsDict(val)
                   /\ Has(val[2], S("choice"))
                   /\ Get(val[2], S("choice")) = ch[1].value
                   /\ \A j \in 1..Len(fs) :
                        /\ Has(val[2], fs[j][1])
                        /\ fs[j][1] # S("choice")
                             => FieldResolved(Get(val[2], fs[j][1]), fs[j][1], fs[j][2], k)

\* A reserved marker key occurs in the value v, at its top level or deeper.
RECURSIVE HasMarker(_)
HasMarker(v) ==
    IF IsDict(v)
    THEN \E j \in 1..Len(v[2]) : v[2][j][1] \in ReservedKeys \/ HasMarker(v[2][j][2])
    ELSE IF IsList(v) THEN \E j \in 1..Len(v[2]) : HasMarker(v[2][j])
    ELSE FALSE
MismatchedGate(i) ==
    LET k == cookiecutter_dict[i][1]
    IN  /\ IsDeferredNestedConfig(k, RawOf(k))
        /\ Has(RawOf(k)[2], S("__conditional__"))
        /\ ~GateMatches(RawOf(k), Before(i))

C21_SchemaOnlyPopped ==
    [][op = "prompt_for_config"
         => IF pc = "start"
            THEN schema' = SelectSeq(schema, LAMBDA e : e[1] # S("__prompts__"))
            ELSE schema' = schema]_vars
C21_Witness ==
    /\ op = "prompt_for_config" /\ pc = "raised"
    /\ prompts # D(<<>>)
    /\ ~Has(schema, S("__prompts__"))
    /\ Len(schema) = 2
    /\ Len(cookiecutter_dict) = 1

==============================================================================
